---- MODULE Spec2Model ----
(***************************************************************************)
(* Model of src/web.py: the Streamlit page of the pervious-concrete        *)
(* compressive-strength predictor.  Streamlit executes the script from top *)
(* to bottom on every interaction (a "run"); between runs only the         *)
(* st.cache_resource cache, matplotlib's figure registry, the browser's    *)
(* widget state and the file system survive.                               *)
(*                                                                         *)
(* Numbers entered in the widgets are modelled in units of 0.01.           *)
(* Python's None is the empty sequence <<>>, a present value v is <<v>>.   *)
(***************************************************************************)
EXTENDS Integers, Sequences, FiniteSets, TLC

VARIABLES
    pc,               \* position of the script run ("idle" between runs)
    runs,             \* number of runs started in this process
    modelExists,      \* os.path.exists(MODEL_PATH)
    scalerExists,     \* os.path.exists(SCALER_PATH)
    disk,             \* version of the artifact pair stored in the files
    cache,            \* st.cache_resource entry of load_model_and_scaler
    diskReads,        \* executions of the body of load_model_and_scaler
    existRuns,        \* runs that found both files present
    openFigures,      \* figures held by matplotlib.pyplot
    history,          \* one record per finished predict action
    ui,               \* widget values held by the browser session
    pressed,          \* the predict button triggered the current run
    pair,             \* module-level (model, scaler) of the current run
    inp,              \* W_C, A_C, ..., Shape read by the current run
    predict_button,   \* value returned by st.button
    input_data,       \* np.array([[...]]) of the current run
    input_scaled_df,  \* DataFrame(input_scaled, columns=feature_names)
    prediction,       \* model.predict(input_scaled)[0]
    plot_explanation, \* shap.Explanation handed to the force plot
    force_plot_fig,   \* figure returned by shap.plots.force
    calls,            \* per-run call counts of the external collaborators
    runReads,         \* disk reads of the current run
    widgetsRendered,  \* the current run created the input widgets
    buttonRendered,   \* the current run created the predict button
    failedAt,         \* stage whose exception reached the except clause
    errorText,        \* {e} interpolated into the prediction error message
    display           \* elements the current run put on the page, in order

env    == <<modelExists, scalerExists, disk>>
proc   == <<cache, diskReads, existRuns, openFigures, history>>
front  == <<ui, pressed>>
locals == <<pair, inp, predict_button, input_data, input_scaled_df,
            prediction, plot_explanation, force_plot_fig>>
trace  == <<calls, runReads, widgetsRendered, buttonRendered, failedAt,
            errorText, display>>
vars   == <<pc, runs, env, proc, front, locals, trace>>

----------------------------------------------------------------------------
(* Bounds *)

MaxRuns == 4

MaxVersion == 2

MaxSteps == 1

----------------------------------------------------------------------------
(* Widgets (lines 86-97) *)

NumericWidgets == {"W_C", "Dmin", "Porosity", "Diameter", "A_C", "ASR", "Height"}

Defaults ==
    [W_C |-> 30, Dmin |-> 475, Porosity |-> 1500, Diameter |-> 10000,
     A_C |-> 300, ASR |-> 50, shape_option |-> "Cylinder", Height |-> 20000]

Step ==
    [W_C |-> 1, Dmin |-> 1, Porosity |-> 10, Diameter |-> 100,
     A_C |-> 10, ASR |-> 1, Height |-> 100]

MinValue == 0

ShapeOptions == <<"Cylinder", "Cube">>

ShapeOf_CubeIsThree(shape_option) == IF shape_option = "Cylinder" THEN 1 ELSE 3

ShapeOf(shape_option) == IF shape_option = "Cylinder" THEN 1 ELSE 2

feature_names == <<"W/C", "A/C", "Dmin", "ASR", "Porosity", "Shape", "Diameter", "Height">>

InputData_ColumnOrder(w) ==
    <<w.W_C, w.Dmin, w.Porosity, w.Diameter, w.A_C, w.ASR, w.Shape, w.Height>>

InputData(w) ==
    <<w.W_C, w.A_C, w.Dmin, w.ASR, w.Porosity, w.Shape, w.Diameter, w.Height>>

----------------------------------------------------------------------------
(* The opaque collaborators: the pickled pair, scaler.transform,           *)
(* model.predict and the SHAP explainer, as functions of their arguments.  *)

Artifact(v) == [bias |-> 100 * v, mean |-> v]

Transform(scaler, x) == [i \in DOMAIN x |-> x[i] - scaler.mean]

RECURSIVE WeightedSum(_, _)
WeightedSum(xs, n) == IF n = 0 THEN 0 ELSE n * xs[n] + WeightedSum(xs, n - 1)

ModelPredict(model, xs) == model.bias + WeightedSum(xs, Len(xs))

Explain(model, df) ==
    [values        |-> [i \in DOMAIN df.values |-> i * df.values[i]],
     base_values   |-> model.bias,
     data          |-> <<>>,
     feature_names |-> df.columns]

----------------------------------------------------------------------------
NoCalls == [transform |-> 0, predict |-> 0, explainer |-> 0, force |-> 0,
            pyplot |-> 0, close |-> 0]

Init ==
    /\ pc = "idle"
    /\ runs = 0
    /\ modelExists \in BOOLEAN
    /\ scalerExists \in BOOLEAN
    /\ disk \in 1..MaxVersion
    /\ cache = <<>>
    /\ diskReads = 0
    /\ existRuns = 0
    /\ openFigures = 0
    /\ history = <<>>
    /\ ui = Defaults
    /\ pressed = FALSE
    /\ pair = <<>>
    /\ inp = <<>>
    /\ predict_button = FALSE
    /\ input_data = <<>>
    /\ input_scaled_df = <<>>
    /\ prediction = <<>>
    /\ plot_explanation = <<>>
    /\ force_plot_fig = <<>>
    /\ calls = NoCalls
    /\ runReads = 0
    /\ widgetsRendered = FALSE
    /\ buttonRendered = FALSE
    /\ failedAt = "none"
    /\ errorText = "none"
    /\ display = <<>>

(* A run starts: the script's names are unbound and the page is empty. *)
StartRun(trigger) ==
    /\ pc = "idle"
    /\ runs < MaxRuns
    /\ runs' = runs + 1
    /\ pc' = "check"
    /\ pressed' = trigger
    /\ pair' = <<>>
    /\ inp' = <<>>
    /\ predict_button' = FALSE
    /\ input_data' = <<>>
    /\ input_scaled_df' = <<>>
    /\ prediction' = <<>>
    /\ plot_explanation' = <<>>
    /\ force_plot_fig' = <<>>
    /\ calls' = NoCalls
    /\ runReads' = 0
    /\ widgetsRendered' = FALSE
    /\ buttonRendered' = FALSE
    /\ failedAt' = "none"
    /\ errorText' = "none"
    /\ display' = <<>>
    /\ UNCHANGED <<env, proc>>

(* The artifact files are installed, removed or replaced between runs. *)
FilesChange ==
    /\ pc = "idle"
    /\ \E m \in BOOLEAN, s \in BOOLEAN, v \in 1..MaxVersion :
          /\ <<m, s, v>> # <<modelExists, scalerExists, disk>>
          /\ modelExists' = m
          /\ scalerExists' = s
          /\ disk' = v
    /\ UNCHANGED <<pc, runs, proc, front, locals, trace>>

(* The page is opened or re-executed without touching a widget. *)
Rerun ==
    /\ StartRun(FALSE)
    /\ UNCHANGED ui

(* The user changes one number_input by one step, or the selectbox. *)
EditWidget ==
    /\ widgetsRendered
    /\ StartRun(FALSE)
    /\ \/ \E w \in NumericWidgets, d \in {-1, 1} :
             LET v == ui[w] + d * Step[w] IN
             /\ v >= MinValue
             /\ v >= Defaults[w] - MaxSteps * Step[w]
             /\ v <= Defaults[w] + MaxSteps * Step[w]
             /\ ui' = [ui EXCEPT ![w] = v]
       \/ \E i \in DOMAIN ShapeOptions :
             /\ ShapeOptions[i] # ui.shape_option
             /\ ui' = [ui EXCEPT !.shape_option = ShapeOptions[i]]

(* The user presses the predict button. *)
PressButton ==
    /\ buttonRendered
    /\ StartRun(TRUE)
    /\ UNCHANGED ui

----------------------------------------------------------------------------
(* The script, one action per statement group of src/web.py *)

(* Line 74 with "and" in place of "or": only both files missing is an error. *)
CheckFiles_BothMissing ==
    /\ pc = "check"
    /\ IF ~modelExists /\ ~scalerExists
          THEN /\ display' = Append(display, "missing")
               /\ pc' = "footer"
               /\ UNCHANGED existRuns
          ELSE /\ pc' = "load"
               /\ existRuns' = existRuns + 1
               /\ UNCHANGED display
    /\ UNCHANGED <<runs, env, cache, diskReads, openFigures, history, front, locals,
                   calls, runReads, widgetsRendered, buttonRendered, failedAt, errorText>>

(* Lines 74-76: the existence check of both artifact files. *)
CheckFiles ==
    /\ pc = "check"
    /\ IF ~modelExists \/ ~scalerExists
          THEN /\ display' = Append(display, "missing")
               /\ pc' = "footer"
               /\ UNCHANGED existRuns
          ELSE /\ pc' = "load"
               /\ existRuns' = existRuns + 1
               /\ UNCHANGED display
    /\ UNCHANGED <<runs, env, cache, diskReads, openFigures, history, front, locals,
                   calls, runReads, widgetsRendered, buttonRendered, failedAt, errorText>>

(* joblib.load succeeds only on files that are there. *)
CanLoad == modelExists /\ scalerExists

(* Lines 77-83 without the cache decorator: every run reads the files. *)
LoadStep_NoCache ==
    /\ pc = "load"
    /\ diskReads' = diskReads + 1
    /\ runReads' = runReads + 1
    /\ \/ /\ CanLoad
          /\ cache' = <<Artifact(disk)>>
          /\ pair' = cache'
          /\ pc' = "inputs"
          /\ UNCHANGED display
       \/ /\ display' = Append(display, "exception")
          /\ pc' = "idle"
          /\ UNCHANGED <<cache, pair>>
    /\ UNCHANGED <<runs, env, existRuns, openFigures, history, front,
                   inp, predict_button, input_data, input_scaled_df, prediction,
                   plot_explanation, force_plot_fig,
                   calls, widgetsRendered, buttonRendered, failedAt, errorText>>

(* Lines 77-83 with the call moved inside the try block of the pipeline. *)
LoadStep_Caught ==
    /\ pc = "load"
    /\ IF cache # <<>>
          THEN /\ pair' = cache
               /\ pc' = "inputs"
               /\ UNCHANGED <<cache, diskReads, runReads, failedAt>>
          ELSE /\ diskReads' = diskReads + 1
               /\ runReads' = runReads + 1
               /\ \/ /\ CanLoad
                     /\ cache' = <<Artifact(disk)>>
                     /\ pair' = cache'
                     /\ pc' = "inputs"
                     /\ UNCHANGED failedAt
                  \/ /\ failedAt' = "load"
                     /\ pc' = "except"
                     /\ UNCHANGED <<cache, pair>>
    /\ UNCHANGED <<runs, env, existRuns, openFigures, history, front,
                   inp, predict_button, input_data, input_scaled_df, prediction,
                   plot_explanation, force_plot_fig,
                   calls, widgetsRendered, buttonRendered, errorText, display>>

(* Lines 77-83: load_model_and_scaler under st.cache_resource.  A cached   *)
(* pair is returned without running the body; otherwise the body reads     *)
(* both files and the pair is cached only if both loads return.  An        *)
(* exception of the body is outside every try block: Streamlit shows it    *)
(* and the run ends there.                                                 *)
LoadStep ==
    /\ pc = "load"
    /\ IF cache # <<>>
          THEN /\ pair' = cache
               /\ pc' = "inputs"
               /\ UNCHANGED <<cache, diskReads, runReads, display>>
          ELSE /\ diskReads' = diskReads + 1
               /\ runReads' = runReads + 1
               /\ \/ /\ CanLoad
                     /\ cache' = <<Artifact(disk)>>
                     /\ pair' = cache'
                     /\ pc' = "inputs"
                     /\ UNCHANGED display
                  \/ /\ display' = Append(display, "exception")
                     /\ pc' = "idle"
                     /\ UNCHANGED <<cache, pair>>
    /\ UNCHANGED <<runs, env, existRuns, openFigures, history, front,
                   inp, predict_button, input_data, input_scaled_df, prediction,
                   plot_explanation, force_plot_fig,
                   calls, widgetsRendered, buttonRendered, failedAt, errorText>>

(* Lines 86-97: the eight widgets return the session's values. *)
InputsStep ==
    /\ pc = "inputs"
    /\ inp' = [W_C |-> ui.W_C, Dmin |-> ui.Dmin, Porosity |-> ui.Porosity,
               Diameter |-> ui.Diameter, A_C |-> ui.A_C, ASR |-> ui.ASR,
               shape_option |-> ui.shape_option,
               Shape |-> ShapeOf(ui.shape_option), Height |-> ui.Height]
    /\ widgetsRendered' = TRUE
    /\ pc' = "button"
    /\ UNCHANGED <<runs, env, proc, front, pair, predict_button, input_data,
                   input_scaled_df, prediction, plot_explanation, force_plot_fig,
                   calls, runReads, buttonRendered, failedAt, errorText, display>>

(* Lines 100-105: st.button is True only in the run its press triggered. *)
ButtonStep ==
    /\ pc = "button"
    /\ predict_button' = pressed
    /\ buttonRendered' = TRUE
    /\ pc' = IF pressed THEN "scale" ELSE "footer"
    /\ UNCHANGED <<runs, env, proc, front, pair, inp, input_data,
                   input_scaled_df, prediction, plot_explanation, force_plot_fig,
                   calls, runReads, widgetsRendered, failedAt, errorText, display>>

(* Lines 110-112 with partial_fit before transform: the cached scaler drifts. *)
ScaleStep_PartialFit ==
    /\ pc = "scale"
    /\ input_data' = InputData(inp)
    /\ calls' = [calls EXCEPT !.transform = @ + 1]
    /\ \/ /\ cache' = <<[cache[1] EXCEPT !.mean = @ + 1]>>
          /\ input_scaled_df' =
                <<[values |-> Transform(cache'[1], input_data'), columns |-> feature_names]>>
          /\ pc' = "predict"
          /\ UNCHANGED failedAt
       \/ /\ failedAt' = "scale"
          /\ pc' = "except"
          /\ UNCHANGED <<cache, input_scaled_df>>
    /\ UNCHANGED <<runs, env, diskReads, existRuns, openFigures, history, front,
                   pair, inp, predict_button, prediction, plot_explanation,
                   force_plot_fig, runReads, widgetsRendered, buttonRendered,
                   errorText, display>>

(* Lines 107-112: assemble the vector, scale it, name its columns. *)
ScaleStep ==
    /\ pc = "scale"
    /\ input_data' = InputData(inp)
    /\ calls' = [calls EXCEPT !.transform = @ + 1]
    /\ \/ /\ input_scaled_df' =
                <<[values |-> Transform(pair[1], input_data'), columns |-> feature_names]>>
          /\ pc' = "predict"
          /\ UNCHANGED failedAt
       \/ /\ failedAt' = "scale"
          /\ pc' = "except"
          /\ UNCHANGED input_scaled_df
    /\ UNCHANGED <<runs, env, proc, front, pair, inp, predict_button, prediction,
                   plot_explanation, force_plot_fig, runReads, widgetsRendered,
                   buttonRendered, errorText, display>>

(* Line 115 followed directly by the SHAP section: the result is not shown. *)
PredictStep_NoShow ==
    /\ pc = "predict"
    /\ calls' = [calls EXCEPT !.predict = @ + 1]
    /\ \/ /\ prediction' = <<ModelPredict(pair[1], input_scaled_df[1].values)>>
          /\ pc' = "explain"
          /\ UNCHANGED failedAt
       \/ /\ failedAt' = "predict"
          /\ pc' = "except"
          /\ UNCHANGED prediction
    /\ UNCHANGED <<runs, env, proc, front, pair, inp, predict_button, input_data,
                   input_scaled_df, plot_explanation, force_plot_fig, runReads,
                   widgetsRendered, buttonRendered, errorText, display>>

(* Line 115: model.predict(input_scaled)[0]. *)
PredictStep ==
    /\ pc = "predict"
    /\ calls' = [calls EXCEPT !.predict = @ + 1]
    /\ \/ /\ prediction' = <<ModelPredict(pair[1], input_scaled_df[1].values)>>
          /\ pc' = "show"
          /\ UNCHANGED failedAt
       \/ /\ failedAt' = "predict"
          /\ pc' = "except"
          /\ UNCHANGED prediction
    /\ UNCHANGED <<runs, env, proc, front, pair, inp, predict_button, input_data,
                   input_scaled_df, plot_explanation, force_plot_fig, runReads,
                   widgetsRendered, buttonRendered, errorText, display>>

(* Lines 118-125: the result box and the heading of the SHAP section. *)
ShowResult ==
    /\ pc = "show"
    /\ display' = display \o <<"result", "heading">>
    /\ pc' = "explain"
    /\ UNCHANGED <<runs, env, proc, front, locals, calls, runReads,
                   widgetsRendered, buttonRendered, failedAt, errorText>>

(* Lines 127-135: the explainer and the single-sample explanation. *)
ExplainStep ==
    /\ pc = "explain"
    /\ calls' = [calls EXCEPT !.explainer = @ + 1]
    /\ \/ /\ plot_explanation' = <<Explain(pair[1], input_scaled_df[1])>>
          /\ pc' = "force"
          /\ UNCHANGED failedAt
       \/ /\ failedAt' = "explain"
          /\ pc' = "except"
          /\ UNCHANGED plot_explanation
    /\ UNCHANGED <<runs, env, proc, front, pair, inp, predict_button, input_data,
                   input_scaled_df, prediction, force_plot_fig, runReads,
                   widgetsRendered, buttonRendered, errorText, display>>

(* Lines 137-142: shap.plots.force creates and returns a pyplot figure. *)
ForceStep ==
    /\ pc = "force"
    /\ calls' = [calls EXCEPT !.force = @ + 1]
    /\ \/ /\ force_plot_fig' = <<"figure">>
          /\ openFigures' = openFigures + 1
          /\ pc' = "pyplot"
          /\ UNCHANGED failedAt
       \/ /\ failedAt' = "force"
          /\ pc' = "except"
          /\ UNCHANGED <<force_plot_fig, openFigures>>
    /\ UNCHANGED <<runs, env, cache, diskReads, existRuns, history, front, pair, inp,
                   predict_button, input_data, input_scaled_df, prediction,
                   plot_explanation, runReads, widgetsRendered, buttonRendered,
                   errorText, display>>

(* Line 144: st.pyplot captures the figure as an image. *)
PyplotStep ==
    /\ pc = "pyplot"
    /\ calls' = [calls EXCEPT !.pyplot = @ + 1]
    /\ \/ /\ display' = Append(display, "plot")
          /\ pc' = "close"
          /\ UNCHANGED failedAt
       \/ /\ failedAt' = "pyplot"
          /\ pc' = "except"
          /\ UNCHANGED display
    /\ UNCHANGED <<runs, env, proc, front, locals, runReads, widgetsRendered,
                   buttonRendered, errorText>>

Outcome == [input |-> input_data, outcome |-> failedAt, prediction |-> prediction]

(* Line 145: plt.close(force_plot_fig), the last statement of the try block. *)
CloseStep ==
    /\ pc = "close"
    /\ calls' = [calls EXCEPT !.close = @ + 1]
    /\ openFigures' = openFigures - 1
    /\ history' = Append(history, Outcome)
    /\ pc' = "footer"
    /\ UNCHANGED <<runs, env, cache, diskReads, existRuns, front, locals, runReads,
                   widgetsRendered, buttonRendered, failedAt, errorText, display>>

(* Lines 147-148 ending in a bare raise: the message, then the run dies. *)
ExceptStep_Reraise ==
    /\ pc = "except"
    /\ errorText' = failedAt
    /\ display' = display \o <<"error", "exception">>
    /\ history' = Append(history, Outcome)
    /\ pc' = "idle"
    /\ UNCHANGED <<runs, env, cache, diskReads, existRuns, openFigures, front, locals,
                   calls, runReads, widgetsRendered, buttonRendered, failedAt>>

(* Lines 147-148 re-entering the pipeline once after a failure. *)
ExceptStep_Retry ==
    /\ pc = "except"
    /\ errorText' = failedAt
    /\ history' = Append(history, Outcome)
    /\ IF calls.transform < 2
          THEN /\ pc' = "scale"
               /\ failedAt' = "none"
               /\ UNCHANGED display
          ELSE /\ pc' = "footer"
               /\ display' = Append(display, "error")
               /\ UNCHANGED failedAt
    /\ UNCHANGED <<runs, env, cache, diskReads, existRuns, openFigures, front, locals,
                   calls, runReads, widgetsRendered, buttonRendered>>

(* Lines 147-148: except Exception as e: st.error(f"... {e}"). *)
ExceptStep ==
    /\ pc = "except"
    /\ errorText' = failedAt
    /\ display' = Append(display, "error")
    /\ history' = Append(history, Outcome)
    /\ pc' = "footer"
    /\ UNCHANGED <<runs, env, cache, diskReads, existRuns, openFigures, front, locals,
                   calls, runReads, widgetsRendered, buttonRendered, failedAt>>

(* Lines 151-152: the rule and the credits close every run that gets there. *)
FooterStep ==
    /\ pc = "footer"
    /\ display' = Append(display, "footer")
    /\ pc' = "idle"
    /\ UNCHANGED <<runs, env, proc, front, locals, calls, runReads,
                   widgetsRendered, buttonRendered, failedAt, errorText>>

Next ==
    \/ FilesChange
    \/ Rerun
    \/ EditWidget
    \/ PressButton
    \/ CheckFiles
    \/ LoadStep
    \/ InputsStep
    \/ ButtonStep
    \/ ScaleStep
    \/ PredictStep
    \/ ShowResult
    \/ ExplainStep
    \/ ForceStep
    \/ PyplotStep
    \/ CloseStep
    \/ ExceptStep
    \/ FooterStep

Spec == Init /\ [][Next]_vars

----------------------------------------------------------------------------
(* Properties *)

Shown(kind) == \E i \in DOMAIN display : display[i] = kind

Count(kind) == Cardinality({i \in DOMAIN display : display[i] = kind})

PipelineUntouched ==
    /\ calls = NoCalls
    /\ input_data = <<>>
    /\ input_scaled_df = <<>>
    /\ prediction = <<>>
    /\ plot_explanation = <<>>
    /\ force_plot_fig = <<>>

RunOver == pc \in {"footer", "idle"}

(* C1: a run that finds the model file or the scaler file missing shows    *)
(* the missing-artifact error and goes straight to the footer: it loads    *)
(* nothing, creates no input widget and no button, and runs no pipeline    *)
(* step.                                                                   *)
C1_MissingShortCircuits ==
    /\ (pc \notin {"idle", "check"} /\ ~(modelExists /\ scalerExists)) =>
          /\ pc = "footer"
          /\ display = <<"missing">>
    /\ Shown("missing") =>
          /\ RunOver
          /\ Count("missing") = 1
          /\ ~Shown("error") /\ ~Shown("result") /\ ~Shown("plot")
          /\ runReads = 0
          /\ pair = <<>>
          /\ inp = <<>>
          /\ ~widgetsRendered
          /\ ~buttonRendered
          /\ ~predict_button
          /\ PipelineUntouched

C1_Witness ==
    /\ pc = "footer"
    /\ modelExists /\ ~scalerExists
    /\ cache # <<>>
    /\ pressed
    /\ display = <<"missing">>

(* C2: between runs no force-plot figure is left open, whether st.pyplot   *)
(* returned or raised.                                                     *)
C2_FiguresReleased == pc = "idle" => openFigures = 0

(* C3: an exception of scaling, prediction, explanation or rendering ends  *)
(* in exactly one error message that names the raising stage; the run      *)
(* still reaches the footer with the widgets and the button on the page,   *)
(* and the pipeline of a later press starts from nothing.                  *)
C3_FailureContained ==
    /\ (RunOver /\ failedAt # "none") =>
          /\ failedAt \in {"scale", "predict", "explain", "force", "pyplot"}
          /\ Count("error") = 1
          /\ errorText = failedAt
          /\ ~Shown("exception")
          /\ widgetsRendered /\ buttonRendered
          /\ pc = "idle" => display[Len(display)] = "footer"
    /\ pc = "except" => (failedAt # "none" /\ ~Shown("error"))
    /\ pc = "scale" =>
          /\ failedAt = "none" /\ errorText = "none"
          /\ display = <<>>
          /\ PipelineUntouched

C3_Witness ==
    /\ pc = "idle"
    /\ failedAt = "none"
    /\ Len(history) >= 2
    /\ history[Len(history) - 1].outcome = "predict"
    /\ history[Len(history)].outcome = "none"
    /\ display = <<"result", "heading", "plot", "footer">>

(* C4: Cylinder gives Shape 1, Cube gives Shape 2, and the Shape position  *)
(* of every vector handed to the scaler is 1 or 2.                         *)
C4_ShapeMapping ==
    /\ inp # <<>> =>
          /\ inp.shape_option \in {"Cylinder", "Cube"}
          /\ inp.shape_option = "Cylinder" => inp.Shape = 1
          /\ inp.shape_option = "Cube" => inp.Shape = 2
    /\ input_data # <<>> => input_data[6] \in {1, 2}

C4_Witness ==
    /\ calls.transform = 1
    /\ inp.shape_option = "Cube"
    /\ input_data[6] = 2

(* C5 as stated: the body of load_model_and_scaler runs only in the first  *)
(* run that finds both files.                                              *)
C5_ReadOnFirstRunOnly == [][diskReads' # diskReads => existRuns = 1]_vars

(* C5 amended: the files are read only while nothing is cached; once a     *)
(* load has succeeded the cached pair never changes, no later run reads    *)
(* the files, and every run that gets past loading uses the cached pair.   *)
C5_LoadedOnceCached ==
    [][/\ diskReads' # diskReads => (cache = <<>> /\ pc = "load")
       /\ cache # <<>> => cache' = cache
       /\ cache' # cache => (pc = "load" /\ cache' = <<Artifact(disk)>>)
       /\ pair' # <<>> => pair' = cache']_vars

C5_Witness ==
    /\ pc = "predict"
    /\ runReads = 0
    /\ diskReads = 1
    /\ pair = cache
    /\ cache # <<Artifact(disk)>>

ExpectedNames == <<"W/C", "A/C", "Dmin", "ASR", "Porosity", "Shape", "Diameter", "Height">>

WidgetValue(name) ==
    CASE name = "W/C"      -> ui.W_C
      [] name = "A/C"      -> ui.A_C
      [] name = "Dmin"     -> ui.Dmin
      [] name = "ASR"      -> ui.ASR
      [] name = "Porosity" -> ui.Porosity
      [] name = "Shape"    -> IF ui.shape_option = "Cylinder" THEN 1 ELSE 2
      [] name = "Diameter" -> ui.Diameter
      [] name = "Height"   -> ui.Height

(* C6: the vector handed to the scaler has the 8 fields W/C, A/C, Dmin,    *)
(* ASR, Porosity, Shape, Diameter, Height in that order, each the value of *)
(* the widget of that name, and the scaled frame carries the same names    *)
(* in the same order.                                                      *)
C6_FieldOrder ==
    /\ input_data # <<>> =>
          /\ Len(input_data) = 8
          /\ \A i \in 1..8 : input_data[i] = WidgetValue(ExpectedNames[i])
    /\ input_scaled_df # <<>> =>
          /\ input_scaled_df[1].columns = ExpectedNames
          /\ Len(input_scaled_df[1].values) = 8
    /\ plot_explanation # <<>> =>
          /\ plot_explanation[1].feature_names = ExpectedNames
          /\ Len(plot_explanation[1].values) = 8

C6_Witness ==
    /\ pc = "force"
    /\ ui.A_C # Defaults.A_C
    /\ ui.shape_option = "Cube"
    /\ input_data[2] = ui.A_C

C8_SameInputSamePrediction ==
    \A i \in DOMAIN history, j \in DOMAIN history :
        (/\ history[i].input = history[j].input
         /\ history[i].prediction # <<>>
         /\ history[j].prediction # <<>>)
        => history[i].prediction = history[j].prediction

C8_Witness ==
    /\ Len(history) >= 3
    /\ \E i \in DOMAIN history, j \in DOMAIN history, k \in DOMAIN history :
          /\ i < j /\ j < k
          /\ history[i].input = history[k].input
          /\ history[i].prediction # <<>>
          /\ history[k].prediction # <<>>
          /\ history[j].outcome = "scale"

(* C9: the result box is on the page before the explanation starts; a      *)
(* failure of the explanation or of the rendering leaves the result box    *)
(* followed by the error message, a failure of scaling or prediction       *)
(* leaves the error message and no result box.                             *)
C9_ResultBeforeExplanation ==
    /\ (pc = "explain" \/ calls.explainer > 0) => (display # <<>> /\ display[1] = "result")
    /\ (prediction # <<>> /\ pc # "show") => Count("result") = 1
    /\ (RunOver /\ failedAt \in {"explain", "force", "pyplot"}) =>
          /\ Len(display) >= 3
          /\ display[1] = "result"
          /\ display[3] = "error"
    /\ (RunOver /\ failedAt \in {"scale", "predict"}) =>
          /\ display[1] = "error"
          /\ ~Shown("result")

C9_Witness ==
    /\ pc = "idle"
    /\ failedAt = "pyplot"
    /\ prediction # <<>>
    /\ display = <<"result", "heading", "error", "footer">>

LoadRaised == runReads > 0 /\ cache = <<>> /\ pc # "load"

(* C10: when both files exist and loading raises, the exception does not   *)
(* reach the except clause of the predict block: no prediction error       *)
(* message is shown and the run ends without widgets and without button.   *)
C10_LoadOutsideBoundary ==
    LoadRaised =>
        /\ pc = "idle"
        /\ display = <<"exception">>
        /\ failedAt = "none" /\ errorText = "none"
        /\ ~widgetsRendered /\ ~buttonRendered
        /\ PipelineUntouched

C10_Witness ==
    /\ LoadRaised
    /\ runs > 1
    /\ modelExists /\ scalerExists
    /\ display = <<"exception">>

====
